---- MODULE Spec2Model ----
(***************************************************************************)
(* Bump allocators of worksheet2: BumpAllocator<N> (task1.hpp, grows       *)
(* upward; BumpUpAllocator<N> of task3.cpp is the same class) and          *)
(* BumpDownAllocator<N> (task3.cpp, grows downward).                       *)
(*                                                                         *)
(* An allocator object is the array memory_[N], the bump pointer next_ and *)
(* the counter allocations_.  Pointers and size_t values are W-bit         *)
(* unsigned words, so addresses and sizes live in 0 .. 2^W - 1 and size_t  *)
(* arithmetic is modulo 2^W.  The array sits at address memory_, chosen at *)
(* construction; address 0 is nullptr.                                     *)
(***************************************************************************)
EXTENDS Integers, FiniteSets, Sequences, TLC

\* Width in bits of size_t and of a pointer (scaled down from 32 / 64).
W == 4

\* Largest value of allocations_ the model explores: alloc is not called
\* again once that many allocations are outstanding, unless it fails.
MaxLive == 2

\* 2^W: the number of size_t values / addresses.
Mod == 2 ^ W

\* Template argument N: BumpAllocator<4> of TEST AllocationFailure.
N == 4

\* nullptr.
NULL == 0

\* sizeof(T) for the element types the callers allocate: char and int.
ElemSizes == {1, 4}

\* Values of the size_t parameter n: the small ones (0: nothing asked for;
\* 4: an exact fit of chars; 5: one char too many), the ones whose product
\* with sizeof(int) reaches 2^W, and the largest one.
Counts == {0, 1, 2, 4, 5} \cup {Mod \div 4, Mod \div 4 + 1, Mod - 1}

\* Where the array memory_[N] may be placed: right above nullptr, or as high
\* as it can go (the one-past-the-end address memory_ + N must still be an
\* address).
MemoryBases == {1, Mod - 1 - N}

VARIABLES
  dir,           \* "up": a BumpAllocator<N>; "down": a BumpDownAllocator<N>
  memory_,       \* address of memory_[0]
  next_,         \* the bump pointer (an address)
  allocations_,  \* the allocation counter
  last,          \* the most recent call: its arguments, its return value and
                 \* the object's fields when it was made
  seq,           \* the current run of allocations followed by releases
  twin           \* a BumpDownAllocator<N> given the same calls as an upward
                 \* allocator (task3.cpp's benchmarks); NoTwin when the
                 \* program has the one allocator only

vars == <<dir, memory_, next_, allocations_, last, seq, twin>>

\* The object's fields as a record.
Self == [memory |-> memory_, next |-> next_, allocations |-> allocations_]

(***************************************************************************)
(* Constructors and accessors                                              *)
(***************************************************************************)

\* A slip in BumpAllocator(): next_ initialised to the high end, as in
\* BumpDownAllocator.
BumpAllocator_ctor_HighEnd(mem) ==
  [memory |-> mem, next |-> mem + N, allocations |-> 0]

\* BumpAllocator(): next_(memory_), allocations_(0)
BumpAllocator_ctor(mem) == [memory |-> mem, next |-> mem, allocations |-> 0]

\* BumpDownAllocator(): next_(memory_ + N), allocations_(0)
BumpDownAllocator_ctor(mem) ==
  [memory |-> mem, next |-> mem + N, allocations |-> 0]

\* capacity(): return N
capacity == N

\* allocations(): return allocations_
allocations(a) == a.allocations

\* remaining_space(): return N - (next_ - memory_), as a size_t
remaining_space(a) == (N - (a.next - a.memory)) % Mod

\* BumpDownAllocator has no accessors; the bytes still free below the cursor
\* are next_ - memory_ (capacity minus the distance moved from memory_ + N).
down_remaining_space(a) == (a.next - a.memory) % Mod

\* remainingSpace() of the arena of direction d.
RemainingSpace(d, a) ==
  IF d = "up" THEN remaining_space(a) ELSE down_remaining_space(a)

\* The cursor's position at construction.
InitialNext(d, mem) ==
  IF d = "up" THEN BumpAllocator_ctor(mem).next
  ELSE BumpDownAllocator_ctor(mem).next

(***************************************************************************)
(* alloc<T>(n)                                                             *)
(***************************************************************************)

\* size_t size = sizeof(T) * n: unsigned, so the product wraps modulo 2^W.
SizeOf(sz, n) == (sz * n) % Mod

\* if (next_ + size > memory_ + N).  next_ + size is defined only while it
\* stays inside memory_[0 .. N]; beyond that the behaviour is undefined, and
\* a build either compares the offsets as if nothing wrapped or computes
\* next_ + size as a W-bit address.  The two agree whenever the sum is in
\* range.
UpOutOfSpace(a, size) ==
  { a.next + size > a.memory + N,
    (a.next + size) % Mod > a.memory + N }

\* if (next_ - size < memory_).  As above, for next_ - size.
DownOutOfSpace(a, size) ==
  { a.next - size < a.memory,
    (a.next - size) % Mod < a.memory }

\* A slip in BumpAllocator::alloc: the pointer returned is next_ after the
\* bump, as in BumpDownAllocator.
BumpAllocator_alloc_ReturnsBumped(a, sz, n, oos) ==
  LET size == SizeOf(sz, n) IN
  IF oos
  THEN [next |-> a.next, allocations |-> a.allocations, ret |-> NULL]
  ELSE [next |-> (a.next + size) % Mod,
        allocations |-> (a.allocations + 1) % Mod,
        ret |-> (a.next + size) % Mod]

\* A change to BumpAllocator::alloc: a request for n = 0 elements is
\* refused.
BumpAllocator_alloc_RejectsZero(a, sz, n, oos) ==
  LET size == SizeOf(sz, n) IN
  IF oos \/ n = 0
  THEN [next |-> a.next, allocations |-> a.allocations, ret |-> NULL]
  ELSE [next |-> (a.next + size) % Mod,
        allocations |-> (a.allocations + 1) % Mod,
        ret |-> a.next]

\* BumpAllocator::alloc<T>(n), where oos is the outcome of the space check.
\* Gives the fields after the call and the pointer returned.
BumpAllocator_alloc(a, sz, n, oos) ==
  LET size == SizeOf(sz, n) IN
  IF oos
  THEN [next |-> a.next, allocations |-> a.allocations, ret |-> NULL]
  ELSE [next |-> (a.next + size) % Mod,
        allocations |-> (a.allocations + 1) % Mod,
        ret |-> a.next]

\* A slip in BumpDownAllocator::alloc: ++allocations_ left out.
BumpDownAllocator_alloc_NoCount(a, sz, n, oos) ==
  LET size == SizeOf(sz, n) IN
  IF oos
  THEN [next |-> a.next, allocations |-> a.allocations, ret |-> NULL]
  ELSE [next |-> (a.next - size) % Mod,
        allocations |-> a.allocations,
        ret |-> (a.next - size) % Mod]

\* BumpDownAllocator::alloc<T>(n), where oos is the outcome of the space check.
BumpDownAllocator_alloc(a, sz, n, oos) ==
  LET size == SizeOf(sz, n) IN
  IF oos
  THEN [next |-> a.next, allocations |-> a.allocations, ret |-> NULL]
  ELSE [next |-> (a.next - size) % Mod,
        allocations |-> (a.allocations + 1) % Mod,
        ret |-> (a.next - size) % Mod]

(***************************************************************************)
(* dealloc()                                                               *)
(***************************************************************************)

\* A slip in BumpAllocator::dealloc: the counter is decremented but next_ is
\* never put back to memory_.
BumpAllocator_dealloc_NoReset(a) ==
  IF a.allocations > 0
  THEN [next |-> a.next, allocations |-> a.allocations - 1]
  ELSE [next |-> a.next, allocations |-> a.allocations]

\* A slip in BumpAllocator::dealloc: no allocations_ > 0 test, so the unsigned
\* counter is decremented even at 0.
BumpAllocator_dealloc_NoGuard(a) ==
  IF (a.allocations - 1) % Mod = 0
  THEN [next |-> a.memory, allocations |-> 0]
  ELSE [next |-> a.next, allocations |-> (a.allocations - 1) % Mod]

\* BumpAllocator::dealloc()
BumpAllocator_dealloc(a) ==
  IF a.allocations > 0
  THEN IF a.allocations - 1 = 0
       THEN [next |-> a.memory, allocations |-> 0]
       ELSE [next |-> a.next, allocations |-> a.allocations - 1]
  ELSE [next |-> a.next, allocations |-> a.allocations]

\* A slip in BumpDownAllocator::dealloc: next_ is put back to memory_ + N on
\* every release, not only on the one that brings the counter to 0.
BumpDownAllocator_dealloc_AlwaysReset(a) ==
  IF a.allocations > 0
  THEN [next |-> a.memory + N, allocations |-> a.allocations - 1]
  ELSE [next |-> a.next, allocations |-> a.allocations]

\* A slip in BumpDownAllocator::dealloc: next_ is put back to memory_, as in
\* BumpAllocator.
BumpDownAllocator_dealloc_ResetLow(a) ==
  IF a.allocations > 0
  THEN IF a.allocations - 1 = 0
       THEN [next |-> a.memory, allocations |-> 0]
       ELSE [next |-> a.next, allocations |-> a.allocations - 1]
  ELSE [next |-> a.next, allocations |-> a.allocations]

\* BumpDownAllocator::dealloc()
BumpDownAllocator_dealloc(a) ==
  IF a.allocations > 0
  THEN IF a.allocations - 1 = 0
       THEN [next |-> a.memory + N, allocations |-> 0]
       ELSE [next |-> a.next, allocations |-> a.allocations - 1]
  ELSE [next |-> a.next, allocations |-> a.allocations]

\* The fields of allocator a of direction d after one dealloc().
AfterDealloc(d, a) ==
  LET res == IF d = "up" THEN BumpAllocator_dealloc(a)
             ELSE BumpDownAllocator_dealloc(a)
  IN [memory |-> a.memory, next |-> res.next, allocations |-> res.allocations]

\* The fields of allocator a of direction d after k consecutive dealloc().
RECURSIVE AfterDeallocs(_, _, _)
AfterDeallocs(d, a, k) ==
  IF k = 0 THEN a ELSE AfterDeallocs(d, AfterDealloc(d, a), k - 1)

(***************************************************************************)
(* The callers' view: what was called last, and the current run of         *)
(* successful allocations followed by releases.                            *)
(***************************************************************************)

\* The record of a call.
Call(op, sz, n, ret) ==
  [op |-> op, sz |-> sz, n |-> n, ret |-> ret, pre |-> Self]

\* What the arena had been through when a run starts: "fresh" (nothing was
\* ever allocated), "live" (allocations are outstanding), "resetFull" (the
\* call just before was the release that brought the counter to 0, made with
\* no space remaining) or "reset" (the counter was brought back to 0 earlier
\* or with space remaining).
SeqPrior ==
  IF allocations_ > 0 THEN "live"
  ELSE IF seq.k = 0 THEN "fresh"
  ELSE IF /\ last.op = "dealloc"
          /\ last.pre.allocations = 1
          /\ RemainingSpace(dir, last.pre) = 0
       THEN "resetFull"
       ELSE "reset"

\* A run starts in the state before a successful allocation that follows a
\* release (or construction).  k counts its successful allocations, r the
\* releases after them (r = k + 1: more releases than allocations), len1 is
\* the byte length elementSize * count asked of its first allocation, ptr1
\* the pointer that allocation returned, counted tells whether every
\* allocation of the run asked for count >= 1, and prior what came before.
SeqAfterAlloc(sz, n, ret) ==
  IF seq.r > 0 \/ seq.k = 0
  THEN [startRemaining |-> RemainingSpace(dir, Self),
        startAllocations |-> allocations_,
        k |-> 1, r |-> 0, len1 |-> sz * n, ptr1 |-> ret,
        counted |-> (n >= 1), prior |-> SeqPrior]
  ELSE [seq EXCEPT !.k = @ + 1, !.counted = @ /\ (n >= 1)]

SeqAfterDealloc ==
  [seq EXCEPT !.r = IF @ <= seq.k THEN @ + 1 ELSE @]

\* A second allocator object: its fields and the pointer its last alloc gave.
Twin(a, ret) ==
  [memory |-> a.memory, next |-> a.next, allocations |-> a.allocations,
   ret |-> ret]

\* No second allocator.
NoTwin == Twin([memory |-> NULL, next |-> NULL, allocations |-> 0], NULL)

(***************************************************************************)
(* The state machine                                                       *)
(***************************************************************************)

Init ==
  /\ twin = NoTwin
  /\ dir \in {"up", "down"}
  /\ memory_ \in MemoryBases
  /\ next_ = InitialNext(dir, memory_)
  /\ allocations_ = 0
  /\ last = Call("ctor", 0, 0, NULL)
  /\ seq = [startRemaining |-> N, startAllocations |-> 0,
            k |-> 0, r |-> 0, len1 |-> 0, ptr1 |-> NULL,
            counted |-> TRUE, prior |-> "fresh"]

\* A call of BumpAllocator<N>::alloc<T>(n) with sizeof(T) = sz.
UpAlloc ==
  /\ dir = "up"
  /\ \E sz \in ElemSizes, n \in Counts :
       \E oos \in UpOutOfSpace(Self, SizeOf(sz, n)) :
         LET res == BumpAllocator_alloc(Self, sz, n, oos) IN
         /\ oos \/ allocations_ < MaxLive
         /\ next_' = res.next
         /\ allocations_' = res.allocations
         /\ last' = Call("alloc", sz, n, res.ret)
         /\ seq' = IF oos THEN seq ELSE SeqAfterAlloc(sz, n, res.ret)
  /\ UNCHANGED <<dir, memory_, twin>>

\* A call of BumpDownAllocator<N>::alloc<T>(n) with sizeof(T) = sz.
DownAlloc ==
  /\ dir = "down"
  /\ \E sz \in ElemSizes, n \in Counts :
       \E oos \in DownOutOfSpace(Self, SizeOf(sz, n)) :
         LET res == BumpDownAllocator_alloc(Self, sz, n, oos) IN
         /\ oos \/ allocations_ < MaxLive
         /\ next_' = res.next
         /\ allocations_' = res.allocations
         /\ last' = Call("alloc", sz, n, res.ret)
         /\ seq' = IF oos THEN seq ELSE SeqAfterAlloc(sz, n, res.ret)
  /\ UNCHANGED <<dir, memory_, twin>>

\* A call of BumpAllocator<N>::dealloc().
UpDealloc ==
  /\ dir = "up"
  /\ LET res == BumpAllocator_dealloc(Self) IN
       /\ next_' = res.next
       /\ allocations_' = res.allocations
  /\ last' = Call("dealloc", 0, 0, NULL)
  /\ seq' = SeqAfterDealloc
  /\ UNCHANGED <<dir, memory_, twin>>

\* A call of BumpDownAllocator<N>::dealloc().
DownDealloc ==
  /\ dir = "down"
  /\ LET res == BumpDownAllocator_dealloc(Self) IN
       /\ next_' = res.next
       /\ allocations_' = res.allocations
  /\ last' = Call("dealloc", 0, 0, NULL)
  /\ seq' = SeqAfterDealloc
  /\ UNCHANGED <<dir, memory_, twin>>

Next == UpAlloc \/ DownAlloc \/ UpDealloc \/ DownDealloc

Spec == Init /\ [][Next]_vars

(***************************************************************************)
(* Two allocators, one of each direction, given the same calls: what       *)
(* task3.cpp's benchmarks do with BumpUpAllocator and BumpDownAllocator.   *)
(* The upward one is in memory_, next_, allocations_, the downward one in  *)
(* twin.                                                                   *)
(***************************************************************************)

InitPair ==
  /\ dir = "up"
  /\ memory_ \in MemoryBases
  /\ next_ = BumpAllocator_ctor(memory_).next
  /\ allocations_ = BumpAllocator_ctor(memory_).allocations
  /\ \E mem \in MemoryBases : twin = Twin(BumpDownAllocator_ctor(mem), NULL)
  /\ last = Call("ctor", 0, 0, NULL)
  /\ seq = [startRemaining |-> N, startAllocations |-> 0,
            k |-> 0, r |-> 0, len1 |-> 0, ptr1 |-> NULL,
            counted |-> TRUE, prior |-> "fresh"]

\* alloc<T>(n) called on both allocators, with sizeof(T) = sz.
PairAlloc ==
  /\ \E sz \in ElemSizes, n \in Counts :
       \E oosUp \in UpOutOfSpace(Self, SizeOf(sz, n)),
          oosDown \in DownOutOfSpace(twin, SizeOf(sz, n)) :
         LET up == BumpAllocator_alloc(Self, sz, n, oosUp)
             down == BumpDownAllocator_alloc(twin, sz, n, oosDown)
         IN
         /\ oosUp \/ allocations_ < MaxLive
         /\ oosDown \/ twin.allocations < MaxLive
         /\ next_' = up.next
         /\ allocations_' = up.allocations
         /\ twin' = [twin EXCEPT !.next = down.next,
                                 !.allocations = down.allocations,
                                 !.ret = down.ret]
         /\ last' = Call("alloc", sz, n, up.ret)
  /\ UNCHANGED <<dir, memory_, seq>>

\* dealloc() called on both allocators.
PairDealloc ==
  /\ LET up == BumpAllocator_dealloc(Self)
         down == BumpDownAllocator_dealloc(twin)
     IN
     /\ next_' = up.next
     /\ allocations_' = up.allocations
     /\ twin' = [twin EXCEPT !.next = down.next,
                             !.allocations = down.allocations,
                             !.ret = NULL]
  /\ last' = Call("dealloc", 0, 0, NULL)
  /\ UNCHANGED <<dir, memory_, seq>>

NextPair == PairAlloc \/ PairDealloc

SpecPair == InitPair /\ [][NextPair]_vars

(***************************************************************************)
(* Properties                                                              *)
(***************************************************************************)

\* remainingSpace() now, and when the last call was made.
Remaining == RemainingSpace(dir, Self)
PreRemaining == RemainingSpace(dir, last.pre)

\* The byte length elementSize * count the last call asked for.
LastLen == last.sz * last.n

\* The last call left next_ and allocations_ (hence remainingSpace() and
\* allocationCount()) as they were.
LastCallChangedNothing ==
  /\ next_ = last.pre.next
  /\ allocations_ = last.pre.allocations
  /\ Remaining = PreRemaining

\* The offset into memory_ of the pointer the last call returned.
LastOffset == last.ret - memory_

\* C1: an allocate with elementSize > 0 and count >= 1 fails (returns
\* nullptr) if and only if elementSize * count > remainingSpace() at call
\* time, and a failed allocate leaves the cursor, remainingSpace() and
\* allocationCount() unchanged.
C1_Exhaustion ==
  (last.op = "alloc" /\ last.sz > 0 /\ last.n >= 1) =>
    /\ (last.ret = NULL) <=> (LastLen > PreRemaining)
    /\ (last.ret = NULL) => LastCallChangedNothing

\* C2: if elementSize * count does not fit in a size_t, allocate fails and
\* leaves the arena unchanged; it never wraps the product and succeeds.
C2_SizeOverflowFails ==
  (last.op = "alloc" /\ LastLen >= Mod) =>
    (last.ret = NULL /\ LastCallChangedNothing)

\* C3: after a successful allocate(sz, n), remainingSpace() is exactly
\* sz * n less than before the call and allocationCount() exactly 1 greater.
C3_MonotonicConsumption ==
  (last.op = "alloc" /\ last.ret # NULL) =>
    /\ Remaining = PreRemaining - LastLen
    /\ allocations(Self) = allocations(last.pre) + 1

\* C4, as claimed: after k successful allocations followed by exactly k
\* releases, started from any reachable state, remainingSpace() is what it was
\* before the sequence and allocationCount() is 0.
C4_BulkResetFromAnyState ==
  (seq.k >= 1 /\ seq.r = seq.k) =>
    (Remaining = seq.startRemaining /\ allocations(Self) = 0)

\* C4, amended: after k successful allocations followed by exactly k
\* releases, started from an Empty arena (allocationCount() = 0),
\* remainingSpace() is what it was before the sequence and allocationCount()
\* is 0.
C4_BulkResetFromEmpty ==
  (seq.startAllocations = 0 /\ seq.k >= 1 /\ seq.r = seq.k) =>
    (Remaining = seq.startRemaining /\ allocations(Self) = 0)

\* Two allocations that moved the cursor of an Empty arena, then two releases.
C4_Witness ==
  /\ seq.startAllocations = 0 /\ seq.k = 2 /\ seq.r = 2
  /\ last.op = "dealloc"
  /\ last.pre.next # InitialNext(dir, memory_)

\* C5: a release with liveCount > 0 decrements liveCount by exactly 1; the
\* cursor goes back to its initial position (remainingSpace() = capacity())
\* exactly when that brings liveCount to 0, and otherwise the cursor and
\* remainingSpace() are unchanged.
C5_Release ==
  (last.op = "dealloc" /\ allocations(last.pre) > 0) =>
    /\ allocations(Self) = allocations(last.pre) - 1
    /\ allocations(Self) = 0 =>
         (next_ = InitialNext(dir, memory_) /\ Remaining = capacity)
    /\ allocations(Self) # 0 =>
         (next_ = last.pre.next /\ Remaining = PreRemaining)

\* The release of the only outstanding allocation, which had moved the cursor.
C5_Witness ==
  /\ last.op = "dealloc"
  /\ allocations(last.pre) = 1
  /\ last.pre.next # InitialNext(dir, memory_)

\* C6: release() with allocationCount() = 0 is a no-op: liveCount stays 0 and
\* the cursor and remainingSpace() are unchanged, however often it is
\* repeated.  (capacity() is the template argument N: nothing can change it.)
C6_UnderflowSafety ==
  (last.op = "dealloc" /\ allocations(last.pre) = 0) =>
    (allocations(Self) = 0 /\ LastCallChangedNothing)

\* A release too many: the arena was used, fully released, and released again.
C6_Witness ==
  /\ last.op = "dealloc"
  /\ allocations(last.pre) = 0
  /\ seq.k >= 1 /\ seq.r = seq.k + 1

\* C7: in every reachable state, liveCount = 0 implies that the cursor is at
\* its initial position, i.e. remainingSpace() = capacity().
C7_EmptyMeansReset ==
  allocations(Self) = 0 =>
    (next_ = InitialNext(dir, memory_) /\ Remaining = capacity)

\* An arena back at liveCount = 0 after two allocations, on which an
\* allocate has then failed.
C7_Witness ==
  /\ allocations(Self) = 0
  /\ seq.k = 2
  /\ last.op = "alloc" /\ last.ret = NULL

\* C8: in every reachable state 0 <= cursor offset <= capacity, equivalently
\* 0 <= remainingSpace() <= capacity().
C8_CursorInBounds ==
  /\ next_ - memory_ \in 0 .. capacity
  /\ Remaining \in 0 .. capacity

\* C9: a successful allocate of length L returns an offset p with
\* 0 <= p and p + L <= capacity.
C9_RegionInsideStorage ==
  (last.op = "alloc" /\ last.ret # NULL) =>
    (0 <= LastOffset /\ LastOffset + LastLen <= capacity)

\* C10: from an Empty arena of capacity C, the first successful allocation, of
\* length L, returns offset 0 (upward) or C - L (downward), and the second,
\* of length M, returns offset L (upward) or C - L - M (downward).
C10_Directionality ==
  (seq.startAllocations = 0 /\ seq.r = 0 /\ last.op = "alloc"
     /\ last.ret # NULL) =>
    /\ seq.k = 1 =>
         LastOffset = IF dir = "up" THEN 0 ELSE capacity - seq.len1
    /\ seq.k = 2 =>
         LastOffset = IF dir = "up" THEN seq.len1
                      ELSE capacity - seq.len1 - LastLen

\* C11: after k >= 1 successful allocations (each of count >= 1) followed by
\* fewer than k releases, remainingSpace() is strictly less than it was
\* before the sequence and allocationCount() > 0.
C11_PartialRelease ==
  (seq.k >= 1 /\ seq.r < seq.k /\ seq.counted) =>
    (Remaining < seq.startRemaining /\ allocations(Self) > 0)

\* Bytes consumed: capacity() - remainingSpace(), of the upward allocator
\* now and before the last call, and of the downward twin now.
UpConsumed == capacity - remaining_space(Self)
UpConsumedBefore == capacity - remaining_space(last.pre)
DownConsumed == capacity - down_remaining_space(twin)

\* C12: an upward and a downward arena of the same capacity, given the same
\* calls, stay in lockstep: an allocate succeeds in one exactly when it
\* succeeds in the other, after every step both have the same liveCount and
\* the same number of bytes consumed, and the offsets returned are the bytes
\* consumed before the call (upward) and capacity minus the bytes consumed
\* after the call (downward).
C12_Lockstep ==
  /\ last.op = "alloc" => ((last.ret = NULL) <=> (twin.ret = NULL))
  /\ allocations(Self) = allocations(twin)
  /\ UpConsumed = DownConsumed
  /\ (last.op = "alloc" /\ last.ret # NULL /\ twin.ret # NULL) =>
       /\ last.ret - memory_ = UpConsumedBefore
       /\ twin.ret - twin.memory = capacity - DownConsumed

\* C13: right after construction remainingSpace() = capacity() and
\* allocationCount() = 0, and in every reachable state capacity() is the
\* value it had at construction (the space a newly constructed arena has).
C13_CapacityInvariant ==
  /\ last.op = "ctor" => (Remaining = capacity /\ allocations(Self) = 0)
  /\ capacity =
       RemainingSpace(dir, [Self EXCEPT !.next = InitialNext(dir, memory_)])

\* A full arena of which one allocation has been released.
C13_Witness ==
  /\ last.op = "dealloc"
  /\ allocations(Self) = 1
  /\ Remaining = 0

\* C14: from every reachable state, with liveCount = k, k consecutive
\* releases reach the Empty state with remainingSpace() = capacity(); no
\* reachable state is stuck.
C14_ReleasesReachEmpty ==
  LET a == AfterDeallocs(dir, Self, allocations(Self)) IN
  /\ allocations(a) = 0
  /\ a.next = InitialNext(dir, memory_)
  /\ RemainingSpace(dir, a) = capacity
  /\ ENABLED Next

\* A full arena with two outstanding allocations, just made fully available
\* again by its second release.
C14_Witness ==
  /\ last.op = "dealloc"
  /\ allocations(last.pre) = 1 /\ PreRemaining = 0
  /\ seq.k = 2 /\ seq.r = 2
  /\ Remaining = capacity

\* C15: an arena whose liveCount is 0, after a reset just as after
\* construction, serves the next allocation of length L <= capacity as a new
\* arena would: it succeeds, returns offset 0 (upward) or capacity - L
\* (downward), and leaves remainingSpace() = capacity() - L and
\* allocationCount() = 1.
C15_ResetIsFresh ==
  (last.op = "alloc" /\ allocations(last.pre) = 0 /\ LastLen <= capacity) =>
    /\ last.ret # NULL
    /\ LastOffset = IF dir = "up" THEN 0 ELSE capacity - LastLen
    /\ Remaining = capacity - LastLen
    /\ allocations(Self) = 1

\* An allocation of the whole capacity, right after the release that reset a
\* full arena.
C15_Witness ==
  /\ seq.prior = "resetFull" /\ seq.k = 1 /\ seq.r = 0
  /\ last.op = "alloc" /\ last.ret # NULL
  /\ LastLen = capacity

\* C16: across a step remainingSpace() never increases, except in a release
\* that brings liveCount from 1 to 0, after which it is capacity(); no
\* allocate moves the cursor back.
C16_MonotoneCursor ==
  /\ last.op = "alloc" => Remaining <= PreRemaining
  /\ last.op = "dealloc" =>
       \/ Remaining <= PreRemaining
       \/ /\ allocations(last.pre) = 1 /\ allocations(Self) = 0
          /\ Remaining = capacity

\* The byte regions [p1, p1 + l1) and [p2, p2 + l2) have no byte in common.
Disjoint(p1, l1, p2, l2) ==
  l1 = 0 \/ l2 = 0 \/ p1 + l1 <= p2 \/ p2 + l2 <= p1

\* C17: the regions returned by successful allocations with no reset between
\* them are disjoint: here the first allocation of a run and a later one of
\* the same run, before any release.
C17_RegionsDisjoint ==
  (seq.k >= 2 /\ seq.r = 0 /\ last.op = "alloc" /\ last.ret # NULL) =>
    Disjoint(seq.ptr1, seq.len1, last.ret, LastLen)

\* C18: a request with count = 0 is not refused: alloc takes its success
\* path whatever space remains, returns the current cursor position, leaves
\* remainingSpace() unchanged and increments liveCount by 1.
C18_ZeroCountAccepted ==
  (last.op = "alloc" /\ last.n = 0) =>
    /\ last.ret = last.pre.next
    /\ next_ = last.pre.next
    /\ Remaining = PreRemaining
    /\ allocations(Self) = allocations(last.pre) + 1

\* liveCount > 0 with the whole capacity remaining, after an alloc of count 0.
C18_Witness ==
  /\ last.op = "alloc" /\ last.n = 0
  /\ allocations(Self) > 0
  /\ Remaining = capacity

====
